---- MODULE Spec2Model ----
(***************************************************************************)
(* A model of kaioagent.py: the agent connects to the controller, reads    *)
(* the handshake, persists the session id, and starts the dispatch loop    *)
(* (process_messages), which reads one request, handles it (command, read, *)
(* write, unknown) and sends one response.  The event loop is single       *)
(* threaded: every action below runs one coroutine from one await to the   *)
(* next.                                                                   *)
(***************************************************************************)
EXTENDS Naturals, Sequences, FiniteSets, TLC

VARIABLES
    main,        \* position of main(): "start", "handshake", "sleeping", "exited"
    exitHow,     \* how the process ended: "none", "interrupt", "error"
    conn,        \* the websocket: "none", "open", "closed" (closed by the peer)
    inbox,       \* messages sent by the controller and not yet received
    issued,      \* number of requests the controller has sent
    session_id,  \* KaioAgentSession.session_id
    fs,          \* the local files, by path
    loop,        \* position of process_messages
    fault,       \* the exception that ended process_messages, "none" if none
    cur,         \* the request being handled
    response,    \* the ClientResponse built by handle_request
    readLog,     \* history: the messages read by process_messages, in order
    sent,        \* history: the responses sent, in order
    spawned,     \* history: number of subprocesses ever spawned
    procs,       \* number of live subprocesses
    indicator,   \* the loading_animation task
    ticks,       \* number of ticks printed by loading_animation
    configWritable,  \* whether CONFIG_FILE can be opened for writing
    returncode,  \* process.returncode of the command being handled
    alive        \* number of loading_animation tasks created and not finished

vars == <<main, exitHow, conn, inbox, issued, session_id, fs, loop, fault, cur,
          response, readLog, sent, spawned, procs, indicator, ticks,
          configWritable, returncode, alive>>

----------------------------------------------------------------------------
(* Bounds *)

MaxRequests == 2
MaxInbox == 2
MaxTicks == 1

----------------------------------------------------------------------------
(* Values *)

RequestIds == {"r1", "r2"}

\* A character that the locale's codec can neither encode nor decode.
BAD == "BAD"

\* Paths: an ordinary file, CONFIG_FILE, and a path that cannot be opened.
CONFIG_FILE == "config"
Files == {"a", CONFIG_FILE}
Paths == Files \cup {"locked"}

Contents == {<<"s">>, <<"CR", "LF", "CR">>, <<BAD>>}
SessionIds == {<<"i", "d">>}
Commands == {"cmd"}
ExitCodes == {0, 7}
Outputs == {<<"h">>, <<BAD>>}

NoFile == [exists |-> FALSE, text |-> <<>>]
File(text) == [exists |-> TRUE, text |-> text]

None == [none |-> TRUE]
Some(v) == [value |-> v]

Request(rid, data) == [request_id |-> rid, data |-> data]

WellFormed ==
    {Request(r, [action |-> "command", command |-> c]) : r \in RequestIds, c \in Commands}
    \cup {Request(r, [action |-> "read", path |-> p]) : r \in RequestIds, p \in Paths}
    \cup UNION {{Request(r, [action |-> "write", path |-> p, content |-> c]) :
                    r \in RequestIds, p \in Paths} : c \in Contents}

UnknownAction == {Request(r, [action |-> "frobnicate"]) : r \in RequestIds}

\* Messages that fail decoding: not JSON, a missing request_id or data, a
\* missing data.action, a missing action-specific field.
Undecodable ==
    {[raw |-> "not json"],
     [data |-> [action |-> "read", path |-> "a"]],
     [request_id |-> "r1"],
     Request("r1", [path |-> "a"]),
     Request("r1", [action |-> "command"]),
     Request("r1", [action |-> "read"]),
     Request("r1", [action |-> "write", path |-> "a"]),
     Request("r1", [action |-> "write", content |-> <<"s">>])}

Messages == WellFormed \cup UnknownAction \cup Undecodable

Handshakes == {[session_id |-> s] : s \in SessionIds} \cup {[hello |-> "x"]}

----------------------------------------------------------------------------
(* Pure helpers *)

Has(text, ch) == \E i \in 1..Len(text) : text[i] = ch

\* Text-mode reading (open(path, 'r'), newline=None): "\r\n" and a lone "\r"
\* are both turned into "\n".
RECURSIVE UniversalNewlines(_)
UniversalNewlines(text) ==
    IF text = <<>> THEN <<>>
    ELSE IF Head(text) = "CR"
         THEN IF Len(text) >= 2 /\ text[2] = "LF"
              THEN <<"LF">> \o UniversalNewlines(SubSeq(text, 3, Len(text)))
              ELSE <<"LF">> \o UniversalNewlines(Tail(text))
         ELSE <<Head(text)>> \o UniversalNewlines(Tail(text))

\* open(path, mode): the error it raises, "none" when it succeeds.
OpenError(path, mode) ==
    IF path \notin Files THEN "Permission denied"
    ELSE IF mode = "w" /\ path = CONFIG_FILE /\ ~configWritable THEN "Permission denied"
    ELSE IF mode = "r" /\ ~fs[path].exists THEN "No such file or directory"
    ELSE "none"

\* A read_file that answers an unopenable file with empty content.
read_file_lenient(path) ==
    IF OpenError(path, "r") # "none" THEN [content |-> <<>>]
    ELSE IF Has(fs[path].text, BAD) THEN [error |-> "codec can't decode"]
    ELSE [content |-> UniversalNewlines(fs[path].text)]

\* read_file: the result mapping.
read_file(path) ==
    IF OpenError(path, "r") # "none" THEN [error |-> OpenError(path, "r")]
    ELSE IF Has(fs[path].text, BAD) THEN [error |-> "codec can't decode"]
    ELSE [content |-> UniversalNewlines(fs[path].text)]

\* A write_file that computes the size before the content is written.
write_file_presized(path, content) ==
    IF OpenError(path, "w") # "none" THEN [error |-> OpenError(path, "w")]
    ELSE [size |-> Len(content)]

\* write_file: the result mapping.
write_file(path, content) ==
    IF OpenError(path, "w") # "none" THEN [error |-> OpenError(path, "w")]
    ELSE IF Has(content, BAD) THEN [error |-> "codec can't encode"]
    ELSE [size |-> Len(content)]

\* A write_file that always writes the same file, whatever the path.
written_fixed(path, content) ==
    IF OpenError(path, "w") # "none" THEN fs
    ELSE IF Has(content, BAD) THEN [fs EXCEPT !["a"] = File(<<>>)]
    ELSE [fs EXCEPT !["a"] = File(content)]

\* write_file: the files afterwards.  open(path, 'w') truncates before
\* file.write encodes the content.
written(path, content) ==
    IF OpenError(path, "w") # "none" THEN fs
    ELSE IF Has(content, BAD) THEN [fs EXCEPT ![path] = File(<<>>)]
    ELSE [fs EXCEPT ![path] = File(content)]

\* bytes.decode(): the text of the subprocess output; BAD bytes raise.
Decodes(bytes) == ~Has(bytes, BAD)

\* The result mapping of execute_command.
CommandResult(rc, out, err) == [return_code |-> rc, stdout |-> out, stderr |-> err]

\* A response that does not echo the request's id.
ClientResponseFixedId(request, result) ==
    [request_id |-> "r1", error |-> "error" \in DOMAIN result, data |-> result]

\* A response that also flags a nonzero exit status as an error.
ClientResponseExitError(request, result) ==
    [request_id |-> request.request_id,
     error |-> \/ "error" \in DOMAIN result
               \/ ("return_code" \in DOMAIN result /\ result.return_code # 0),
     data |-> result]

\* The ClientResponse handle_request returns.
ClientResponse(request, result) ==
    [request_id |-> request.request_id,
     error |-> "error" \in DOMAIN result,
     data |-> result]

\* The exception raised while decoding a message, "none" for a request
\* handle_request can dispatch.
DecodeFault(message) ==
    IF "raw" \in DOMAIN message THEN "JSONDecodeError"
    ELSE IF DOMAIN message # {"request_id", "data"} THEN "TypeError"
    ELSE IF "action" \notin DOMAIN message.data THEN "KeyError"
    ELSE IF message.data.action = "command" /\ "command" \notin DOMAIN message.data
         THEN "KeyError"
    ELSE IF message.data.action = "read" /\ "path" \notin DOMAIN message.data
         THEN "KeyError"
    ELSE IF message.data.action = "write"
            /\ ~({"path", "content"} \subseteq DOMAIN message.data)
         THEN "KeyError"
    ELSE "none"

Action(message) == message.data.action

----------------------------------------------------------------------------
(* Initial state *)

Init ==
    /\ main = "start"
    /\ exitHow = "none"
    /\ conn = "none"
    /\ inbox = <<>>
    /\ issued = 0
    /\ session_id = None
    /\ fs \in {[p \in Files |-> IF p = "a" THEN f ELSE NoFile] :
                  f \in {NoFile, File(<<BAD>>)}}
    /\ loop = "none"
    /\ fault = "none"
    /\ cur = None
    /\ response = None
    /\ readLog = <<>>
    /\ sent = <<>>
    /\ spawned = 0
    /\ procs = 0
    /\ indicator = "none"
    /\ ticks = 0
    /\ configWritable \in BOOLEAN
    /\ returncode = None
    /\ alive = 0

----------------------------------------------------------------------------
(* The controller *)

\* The controller sends one more request.
PeerRequest ==
    /\ conn = "open"
    /\ main # "exited"
    /\ issued < MaxRequests
    /\ Len(inbox) < MaxInbox
    /\ \E m \in Messages : inbox' = Append(inbox, m)
    /\ issued' = issued + 1
    /\ UNCHANGED <<main, exitHow, conn, session_id, fs, loop, fault, cur, response,
                   readLog, sent, spawned, procs, indicator, ticks,
                   configWritable, returncode, alive>>

\* The controller closes the connection.
PeerClose ==
    /\ conn = "open"
    /\ main # "exited"
    /\ conn' = "closed"
    /\ UNCHANGED <<main, exitHow, inbox, issued, session_id, fs, loop, fault, cur,
                   response, readLog, sent, spawned, procs, indicator, ticks,
                   configWritable, returncode, alive>>

----------------------------------------------------------------------------
(* main, start_session and connect *)

\* What asyncio.run does to the tasks still pending when main ends.
CancelledLoop == IF loop \in {"recv", "spawn", "communicate", "send"}
                 THEN "cancelled" ELSE loop
CancelledIndicator == IF indicator \in {"running", "cancelling"}
                      THEN "finished" ELSE indicator

\* An exception leaves main(): the top-level handler reports it.
TopLevel(how) ==
    /\ main' = "exited"
    /\ exitHow' = how
    /\ loop' = CancelledLoop
    /\ indicator' = CancelledIndicator
    /\ alive' = 0

\* websockets.connect: the channel opens and the controller sends the
\* handshake, or the connection attempt raises.
connect_open ==
    /\ main = "start"
    /\ \/ /\ \E h \in Handshakes : inbox' = <<h>>
          /\ conn' = "open"
          /\ main' = "handshake"
          /\ UNCHANGED <<exitHow, loop, indicator, alive>>
       \/ /\ TopLevel("error")
          /\ UNCHANGED <<conn, inbox>>
    /\ UNCHANGED <<issued, session_id, fs, fault, cur, response, readLog, sent,
                   spawned, procs, ticks, configWritable, returncode>>

\* A save_session_id that writes the id to another file.
save_session_id_elsewhere(id) == [fs EXCEPT !["a"] = File(id)]

\* save_session_id: the files afterwards.
save_session_id(id) == [fs EXCEPT ![CONFIG_FILE] = File(id)]

\* A connect that swallows the failure to persist the session id.
connect_handshake_swallow ==
    /\ main = "handshake"
    /\ inbox # <<>>
    /\ inbox' = Tail(inbox)
    /\ IF "session_id" \notin DOMAIN Head(inbox)
       THEN /\ TopLevel("error")
            /\ UNCHANGED <<session_id, fs>>
       ELSE /\ session_id' = Some(Head(inbox).session_id)
            /\ fs' = IF OpenError(CONFIG_FILE, "w") # "none" THEN fs
                     ELSE save_session_id(Head(inbox).session_id)
            /\ main' = "sleeping"
            /\ loop' = "recv"
            /\ UNCHANGED <<exitHow, indicator, alive>>
    /\ UNCHANGED <<conn, issued, fault, cur, response, readLog, sent, spawned,
                   procs, ticks, configWritable, returncode>>

\* connect from the handshake on, then start_session's create_task and
\* main's first sleep.
connect_handshake ==
    /\ main = "handshake"
    /\ inbox # <<>>
    /\ inbox' = Tail(inbox)
    /\ IF "session_id" \notin DOMAIN Head(inbox)
       THEN /\ TopLevel("error")
            /\ UNCHANGED <<session_id, fs>>
       ELSE /\ session_id' = Some(Head(inbox).session_id)
            /\ IF OpenError(CONFIG_FILE, "w") # "none"
               THEN /\ TopLevel("error")
                    /\ UNCHANGED fs
               ELSE /\ fs' = save_session_id(Head(inbox).session_id)
                    /\ main' = "sleeping"
                    /\ loop' = "recv"
                    /\ UNCHANGED <<exitHow, indicator, alive>>
    /\ UNCHANGED <<conn, issued, fault, cur, response, readLog, sent, spawned,
                   procs, ticks, configWritable, returncode>>

\* KeyboardInterrupt: asyncio.run cancels every task and the process ends.
Interrupt ==
    /\ main \in {"handshake", "sleeping"}
    /\ TopLevel("interrupt")
    /\ UNCHANGED <<conn, inbox, issued, session_id, fs, fault, cur, response,
                   readLog, sent, spawned, procs, ticks, configWritable,
                   returncode>>

----------------------------------------------------------------------------
(* process_messages and handle_request *)

\* A loop that reads the next message while a response is still unsent.
CanRecvPipelined == loop \in {"recv", "send"} /\ inbox # <<>>

\* A loop that reads the next message while the subprocess is still running.
CanRecvWhileRunning == loop \in {"recv", "communicate"} /\ inbox # <<>>

\* websocket.recv returns the next message.
CanRecv == loop = "recv" /\ inbox # <<>>

\* The message recv returns is taken off the connection.
Received(m) ==
    /\ inbox' = Tail(inbox)
    /\ readLog' = Append(readLog, m)
    /\ cur' = m

\* A send that puts the newest response first.
DeliveredFirst(r) == <<r>> \o sent

\* The responses sent, after websocket.send(response) succeeds.
Delivered(r) == Append(sent, r)

\* The loop after a successful send.
AfterSend == "recv"

\* A loop without the except clause: ConnectionClosed ends the task.
recv_closed_raises ==
    /\ loop = "recv"
    /\ inbox = <<>>
    /\ conn = "closed"
    /\ loop' = "crashed"
    /\ fault' = "ConnectionClosed"
    /\ UNCHANGED <<main, exitHow, conn, inbox, issued, session_id, fs, cur,
                   response, readLog, sent, spawned, procs, indicator, ticks,
                   configWritable, returncode, alive>>

\* recv raises ConnectionClosed: the loop breaks.
recv_closed ==
    /\ loop = "recv"
    /\ inbox = <<>>
    /\ conn = "closed"
    /\ loop' = "done"
    /\ UNCHANGED <<main, exitHow, conn, inbox, issued, session_id, fs, fault, cur,
                   response, readLog, sent, spawned, procs, indicator, ticks,
                   configWritable, returncode, alive>>

\* A handler that opens the file of a write request before it looks up the
\* content.
recv_undecodable_opening ==
    /\ CanRecv
    /\ DecodeFault(Head(inbox)) # "none"
    /\ Received(Head(inbox))
    /\ loop' = "crashed"
    /\ fault' = DecodeFault(Head(inbox))
    /\ fs' = IF /\ DOMAIN Head(inbox) = {"request_id", "data"}
                /\ {"action", "path"} \subseteq DOMAIN Head(inbox).data
                /\ Head(inbox).data.action = "write"
                /\ OpenError(Head(inbox).data.path, "w") = "none"
             THEN [fs EXCEPT ![Head(inbox).data.path] = File(<<>>)]
             ELSE fs
    /\ UNCHANGED <<main, exitHow, conn, issued, session_id, response, sent,
                   spawned, procs, indicator, ticks, configWritable, returncode,
                   alive>>

\* json.loads, ClientRequest(**request) or a data[...] lookup raises: the
\* exception is not ConnectionClosed and ends the task.
recv_undecodable ==
    /\ CanRecv
    /\ DecodeFault(Head(inbox)) # "none"
    /\ Received(Head(inbox))
    /\ loop' = "crashed"
    /\ fault' = DecodeFault(Head(inbox))
    /\ UNCHANGED <<main, exitHow, conn, issued, session_id, fs, response, sent,
                   spawned, procs, indicator, ticks, configWritable, returncode, alive>>

\* action == 'command': execute_command runs up to create_subprocess_shell.
recv_command ==
    /\ CanRecv
    /\ DecodeFault(Head(inbox)) = "none"
    /\ Action(Head(inbox)) = "command"
    /\ Received(Head(inbox))
    /\ loop' = "spawn"
    /\ UNCHANGED <<main, exitHow, conn, issued, session_id, fs, fault, response,
                   sent, spawned, procs, indicator, ticks, configWritable, returncode, alive>>

\* action == 'read': read_file, then the response is built.
recv_read ==
    /\ CanRecv
    /\ DecodeFault(Head(inbox)) = "none"
    /\ Action(Head(inbox)) = "read"
    /\ Received(Head(inbox))
    /\ response' = ClientResponse(Head(inbox), read_file(Head(inbox).data.path))
    /\ loop' = "send"
    /\ UNCHANGED <<main, exitHow, conn, issued, session_id, fs, fault, sent,
                   spawned, procs, indicator, ticks, configWritable, returncode, alive>>

\* action == 'write': write_file, then the response is built.
recv_write ==
    /\ CanRecv
    /\ DecodeFault(Head(inbox)) = "none"
    /\ Action(Head(inbox)) = "write"
    /\ Received(Head(inbox))
    /\ fs' = written(Head(inbox).data.path, Head(inbox).data.content)
    /\ response' = ClientResponse(Head(inbox),
                       write_file(Head(inbox).data.path, Head(inbox).data.content))
    /\ loop' = "send"
    /\ UNCHANGED <<main, exitHow, conn, issued, session_id, fault, sent, spawned,
                   procs, indicator, ticks, configWritable, returncode, alive>>

\* An else branch that reports no error key.
unknown_action_message == [message |-> "Unknown action"]

\* The result of the else branch of handle_request.
unknown_action == [error |-> "Unknown action"]

\* Any other action.
recv_unknown ==
    /\ CanRecv
    /\ DecodeFault(Head(inbox)) = "none"
    /\ Action(Head(inbox)) \notin {"command", "read", "write"}
    /\ Received(Head(inbox))
    /\ response' = ClientResponse(Head(inbox), unknown_action)
    /\ loop' = "send"
    /\ UNCHANGED <<main, exitHow, conn, issued, session_id, fs, fault, sent,
                   spawned, procs, indicator, ticks, configWritable, returncode, alive>>

\* websocket.send: the response goes out, or ConnectionClosed breaks the loop.
send ==
    /\ loop = "send"
    /\ IF conn = "open"
       THEN /\ sent' = Delivered(response)
            /\ loop' = AfterSend
       ELSE /\ loop' = "done"
            /\ UNCHANGED sent
    /\ cur' = None
    /\ response' = None
    /\ returncode' = None
    /\ UNCHANGED <<main, exitHow, conn, inbox, issued, session_id, fs, fault,
                   readLog, spawned, procs, indicator, ticks, configWritable,
                   alive>>

----------------------------------------------------------------------------
(* execute_command and loading_animation *)

\* The indicator task after loading_task.cancel().
Cancel == "cancelling"

\* A create_subprocess_shell that returns without the event loop having run
\* the tasks scheduled before it.
SpawnReadyAtOnce == TRUE

\* create_subprocess_shell returns only after the loop task was suspended on
\* the transport's waiter: the event loop has run the tasks scheduled before,
\* so an indicator cancelled earlier has received its CancelledError.
SpawnReady == indicator # "cancelling"

\* create_subprocess_shell returns: the subprocess runs and the indicator task
\* is created.
spawn_ok ==
    /\ loop = "spawn"
    /\ SpawnReady
    /\ spawned' = spawned + 1
    /\ procs' = procs + 1
    /\ indicator' = "running"
    /\ alive' = alive + 1
    /\ loop' = "communicate"
    /\ UNCHANGED <<main, exitHow, conn, inbox, issued, session_id, fs, fault, cur,
                   response, readLog, sent, ticks, configWritable, returncode>>

\* create_subprocess_shell raises (Popen fails before the coroutine is ever
\* suspended): no subprocess, no indicator task.
spawn_fault ==
    /\ loop = "spawn"
    /\ loop' = "crashed"
    /\ fault' = "SpawnError"
    /\ UNCHANGED <<main, exitHow, conn, inbox, issued, session_id, fs, cur,
                   response, readLog, sent, spawned, procs, indicator, ticks,
                   configWritable, returncode, alive>>

\* process.communicate returns: the subprocess has exited with status rc.  The
\* indicator is cancelled, the output decoded and the response built.
communicate_done ==
    /\ loop = "communicate"
    /\ procs' = procs - 1
    /\ indicator' = Cancel
    /\ \E rc \in ExitCodes, out \in Outputs, err \in Outputs :
          /\ returncode' = Some(rc)
          /\ IF Decodes(out) /\ Decodes(err)
             THEN /\ response' = ClientResponse(cur, CommandResult(rc, out, err))
                  /\ loop' = "send"
                  /\ UNCHANGED fault
             ELSE /\ loop' = "crashed"
                  /\ fault' = "UnicodeDecodeError"
                  /\ UNCHANGED response
    /\ UNCHANGED <<main, exitHow, conn, inbox, issued, session_id, fs, cur,
                   readLog, sent, spawned, ticks, configWritable, alive>>

\* process.communicate raises (a fault on the subprocess pipes): nothing
\* after line 174 runs.
communicate_fault ==
    /\ loop = "communicate"
    /\ loop' = "crashed"
    /\ fault' = "CommunicateError"
    /\ UNCHANGED <<main, exitHow, conn, inbox, issued, session_id, fs, cur,
                   response, readLog, sent, spawned, procs, indicator, ticks,
                   configWritable, returncode, alive>>

\* loading_animation prints one more tick and sleeps.
indicator_tick ==
    /\ indicator = "running"
    /\ ticks < MaxTicks
    /\ ticks' = ticks + 1
    /\ UNCHANGED <<main, exitHow, conn, inbox, issued, session_id, fs, loop, fault,
                   cur, response, readLog, sent, spawned, procs, indicator,
                   configWritable, returncode, alive>>

\* loading_animation receives CancelledError and returns.
indicator_cancelled ==
    /\ indicator = "cancelling"
    /\ indicator' = "finished"
    /\ alive' = alive - 1
    /\ UNCHANGED <<main, exitHow, conn, inbox, issued, session_id, fs, loop, fault,
                   cur, response, readLog, sent, spawned, procs, ticks,
                   configWritable, returncode>>

----------------------------------------------------------------------------
(* Specification *)

\* The steps the agent itself can take: main() only sleeps once the session
\* is started, so these are all the work the event loop has.
AgentStep ==
    \/ connect_open
    \/ connect_handshake
    \/ recv_closed
    \/ recv_undecodable
    \/ recv_command
    \/ recv_read
    \/ recv_write
    \/ recv_unknown
    \/ send
    \/ spawn_ok
    \/ spawn_fault
    \/ communicate_done
    \/ communicate_fault
    \/ indicator_tick
    \/ indicator_cancelled

Next ==
    \/ PeerRequest
    \/ PeerClose
    \/ connect_open
    \/ connect_handshake
    \/ Interrupt
    \/ recv_closed
    \/ recv_undecodable
    \/ recv_command
    \/ recv_read
    \/ recv_write
    \/ recv_unknown
    \/ send
    \/ spawn_ok
    \/ spawn_fault
    \/ communicate_done
    \/ communicate_fault
    \/ indicator_tick
    \/ indicator_cancelled

Spec == Init /\ [][Next]_vars

----------------------------------------------------------------------------
(* Claims *)

Rid(m) == IF "request_id" \in DOMAIN m THEN m.request_id ELSE "absent"
Rids(log) == [i \in 1..Len(log) |-> Rid(log[i])]
Decodable(m) == DecodeFault(m) = "none"
Handling == loop \in {"spawn", "communicate", "send"}

\* C1 as stated: once the agent, still running, is no longer handling a
\* request (it waits for the next one, or its loop has ended), the responses
\* sent are exactly one per request read, in the order read -- here for
\* sequences of well-formed requests only.
C1_OneResponsePerRequest ==
    (/\ main = "sleeping"
     /\ ~Handling
     /\ \A i \in 1..Len(readLog) : Decodable(readLog[i]))
    => Rids(sent) = Rids(readLog)

\* C1 amended: the responses sent carry, in order, the request_ids of the
\* requests read, except that the last request read may have no response
\* (it is being handled, its handling raised, or the connection closed before
\* its response could be sent); while the loop waits for the next request
\* every request read has exactly one response.
C1_ResponsesFollowRequests ==
    /\ Len(sent) <= Len(readLog)
    /\ Len(readLog) <= Len(sent) + 1
    /\ Rids(sent) = SubSeq(Rids(readLog), 1, Len(sent))
    /\ loop = "recv" => Len(sent) = Len(readLog)

C1_Witness ==
    /\ loop = "recv"
    /\ Len(sent) = 2
    /\ Rids(readLog) = <<"r2", "r1">>
    /\ Rids(sent) = <<"r2", "r1">>

\* C2: the response built for a well-formed command, read or write request
\* carries the request's request_id, on success and on in-band error.
C2_CorrelationPreserved ==
    (/\ loop = "send"
     /\ Action(cur) \in {"command", "read", "write"})
    => response.request_id = cur.request_id

C2_Witness ==
    /\ loop = "send"
    /\ Action(cur) = "read"
    /\ cur.request_id = "r2"
    /\ response.error
    /\ response.request_id = "r2"

\* C3: every response built or sent has error = ("error" in data); error is
\* true for an unknown action and for a failed read or write, false for a
\* successful read or write and for every command result, whatever the exit
\* status.
ErrorIsDerived(request, r) ==
    /\ r.error = ("error" \in DOMAIN r.data)
    /\ Action(request) = "command" => ~r.error /\ "return_code" \in DOMAIN r.data
    /\ Action(request) = "read" => (r.error <=> "content" \notin DOMAIN r.data)
    /\ Action(request) = "write" => (r.error <=> "size" \notin DOMAIN r.data)
    /\ Action(request) \notin {"command", "read", "write"} => r.error

C3_ErrorIsDerived ==
    /\ loop = "send" => ErrorIsDerived(cur, response)
    /\ \A i \in 1..Len(sent) : ErrorIsDerived(readLog[i], sent[i])

C3_Witness ==
    /\ Len(sent) = 2
    /\ Action(readLog[1]) = "command"
    /\ sent[1].data.return_code = 7
    /\ ~sent[1].error
    /\ Action(readLog[2]) = "write"
    /\ sent[2].error

\* C4: for a request whose action is none of command, read, write, the
\* response built is {request_id, error: true, data: {error: "Unknown
\* action"}}, and the loop sends it and goes back to reading (as long as the
\* connection is open and the process is not interrupted).
IsUnknown(m) == Decodable(m) /\ Action(m) \notin {"command", "read", "write"}

C4_UnknownAction ==
    /\ [](loop = "send" /\ IsUnknown(cur)
          => response = [request_id |-> cur.request_id, error |-> TRUE,
                         data |-> [error |-> "Unknown action"]])
    /\ [][(CanRecv /\ IsUnknown(Head(inbox)) /\ readLog' # readLog)
          => loop' = "send"]_vars
    /\ [][(loop = "send" /\ IsUnknown(cur) /\ conn = "open" /\ loop' # loop
           /\ main' = main)
          => (loop' = "recv" /\ sent' = Append(sent, response))]_vars

C4_Witness ==
    /\ Len(readLog) = 2
    /\ IsUnknown(readLog[1])
    /\ Rid(readLog[1]) = "r2"
    /\ Len(sent) >= 1
    /\ sent[1] = [request_id |-> "r2", error |-> TRUE,
                  data |-> [error |-> "Unknown action"]]

C6_IndicatorStopped == loop # "communicate" => indicator # "running"

\* C7 as stated: when the subprocess was spawned and has exited with status
\* n, execute_command raises nothing and returns a result with return_code n.
C7_ExitNeverRaises ==
    returncode # None
    => /\ fault = "none"
       /\ loop = "send" => response.data.return_code = returncode.value

\* C8: a read or write request always yields a response, never an exception;
\* when the file cannot be opened, decoded or encoded, the result holds only
\* the key "error" and the response has error = true; the loop then sends it
\* and goes back to reading (as long as the connection is open and the
\* process is not interrupted).
IOFails(m) ==
    LET path == m.data.path IN
    IF Action(m) = "read"
    THEN path \notin Files \/ ~fs[path].exists \/ Has(fs[path].text, BAD)
    ELSE \/ path \notin Files
         \/ (path = CONFIG_FILE /\ ~configWritable)
         \/ Has(m.data.content, BAD)

IsFileRequest(m) == Decodable(m) /\ Action(m) \in {"read", "write"}

C8_FileFaultsInBand ==
    /\ [][(CanRecv /\ IsFileRequest(Head(inbox)) /\ readLog' # readLog)
          => /\ loop' = "send"
             /\ fault' = "none"
             /\ IOFails(Head(inbox))
                  => response'.error /\ DOMAIN response'.data = {"error"}]_vars
    /\ [][(loop = "send" /\ IsFileRequest(cur) /\ response.error /\ conn = "open"
           /\ loop' # loop /\ main' = main)
          => (loop' = "recv" /\ sent' = Append(sent, response))]_vars

C8_Witness ==
    /\ Len(readLog) = 2
    /\ Action(readLog[1]) = "write"
    /\ Len(sent) = 1
    /\ sent[1].error
    /\ loop = "send"
    /\ Action(cur) = "read"
    /\ response.data = [error |-> "No such file or directory"]

\* C9 as stated: a successful write of content to a path, immediately
\* followed by a read of the same path, is answered with exactly
\* {content: content}.
C9_WriteThenRead ==
    \A i \in 1..Len(sent) :
        (/\ i > 1
         /\ Action(readLog[i - 1]) = "write"
         /\ ~sent[i - 1].error
         /\ Action(readLog[i]) = "read"
         /\ readLog[i].data.path = readLog[i - 1].data.path)
        => sent[i].data = [content |-> readLog[i - 1].data.content]

\* C10: the response to a write that put the content in the file reports
\* size = the length of the request's content; the response to a write that
\* did not holds only the key "error".
C10_WriteSize ==
    (loop = "send" /\ Action(cur) = "write")
    => IF cur.data.path \in Files /\ fs[cur.data.path] = File(cur.data.content)
       THEN response.data = [size |-> Len(cur.data.content)]
       ELSE DOMAIN response.data = {"error"}

C10_Witness ==
    /\ loop = "send"
    /\ Len(readLog) = 2
    /\ Action(cur) = "write"
    /\ cur.data.content = <<"CR", "LF", "CR">>
    /\ response.data = [size |-> 3]
    /\ sent[1].error
    /\ Action(readLog[1]) = "write"

Quiescent == ~ENABLED AgentStep
LastRead == readLog[Len(readLog)]

\* C11 as stated: once the peer has closed the connection, the agent does
\* not keep running: when it has no step left to take, the process has
\* exited.
C11_ExitsAfterClose == (conn = "closed" /\ Quiescent) => main = "exited"

\* C12 as stated: after a spawn fault the process ends through the
\* top-level exception handler: when the agent has no step left to take (and
\* was not interrupted), it has exited with the error reported.
C12_SpawnFaultTerminates ==
    (fault = "SpawnError" /\ exitHow # "interrupt" /\ Quiescent)
    => (main = "exited" /\ exitHow = "error")

\* C13 as stated: a message that fails decoding does not end the loop: no
\* exception escapes, and the response built and sent for it is an in-band
\* error.
C13_DecodeFaultsInBand ==
    \A i \in 1..Len(readLog) :
        ~Decodable(readLog[i])
        => /\ fault = "none"
           /\ loop # "crashed"
           /\ (i = Len(readLog) /\ loop = "send") => response.error
           /\ i <= Len(sent) => sent[i].error

\* C14: connect takes exactly one message, the handshake, before any request
\* is read; when it lacks session_id or the id cannot be persisted, the
\* failure reaches the top-level handler, the dispatch loop is never started
\* and no request is read, handled or answered.
HandshakeFails == "session_id" \notin DOMAIN Head(inbox) \/ ~configWritable

C14_HandshakeFirst ==
    /\ [][readLog' # readLog => (main = "sleeping" /\ session_id # None)]_vars
    /\ [][(main = "handshake" /\ main' # main /\ exitHow' # "interrupt")
          => /\ inbox' = Tail(inbox)
             /\ readLog' = readLog
             /\ IF HandshakeFails
                THEN main' = "exited" /\ exitHow' = "error" /\ loop' = "none"
                ELSE main' = "sleeping" /\ loop' = "recv"]_vars
    /\ [](exitHow = "error"
          => (loop = "none" /\ readLog = <<>> /\ sent = <<>> /\ spawned = 0))

C14_Witness ==
    /\ main = "exited"
    /\ exitHow = "error"
    /\ session_id # None
    /\ ~configWritable
    /\ Len(inbox) = 1
    /\ Decodable(Head(inbox))
    /\ readLog = <<>>
    /\ loop = "none"

\* C15 as stated: in every state after a successful connect, the in-memory
\* and the persisted session id both equal the id received in the handshake.
C15_SessionWrittenOnce ==
    main = "sleeping"
    => /\ \E id \in SessionIds : session_id = Some(id)
       /\ fs[CONFIG_FILE] = File(session_id.value)

\* C15 amended: the in-memory session id is written only by connect, with
\* the id of the handshake; connect persists that same id; afterwards the
\* persisted id changes only when a write request names the session file's
\* path, and no other request handled by the agent changes either.
WritesConfig(m) ==
    Decodable(m) /\ Action(m) = "write" /\ m.data.path = CONFIG_FILE

C15_SessionWrittenAtConnect ==
    /\ [][session_id' # session_id
          => /\ main = "handshake"
             /\ "session_id" \in DOMAIN Head(inbox)
             /\ session_id' = Some(Head(inbox).session_id)]_vars
    /\ [][(main = "handshake" /\ main' = "sleeping")
          => fs'[CONFIG_FILE] = File(session_id'.value)]_vars
    /\ [][(fs'[CONFIG_FILE] # fs[CONFIG_FILE] /\ main # "handshake")
          => (CanRecv /\ WritesConfig(Head(inbox)))]_vars

C15_Witness ==
    /\ Len(sent) = 2
    /\ Action(readLog[1]) = "write"
    /\ readLog[1].data.path = "a"
    /\ ~sent[1].error
    /\ Action(readLog[2]) = "command"
    /\ session_id = Some(<<"i", "d">>)
    /\ fs[CONFIG_FILE] = File(<<"i", "d">>)

C17_ClosedEndsLoop ==
    /\ [](loop = "done" => (fault = "none" /\ conn = "closed"))
    /\ [][(loop = "recv" /\ inbox = <<>> /\ conn = "closed" /\ loop' # loop
           /\ main' = main)
          => (loop' = "done" /\ fault' = "none")]_vars
    /\ [][(loop = "send" /\ conn = "closed" /\ loop' # loop /\ main' = main)
          => (loop' = "done" /\ fault' = "none" /\ sent' = sent)]_vars
    /\ [][(loop \in {"spawn", "communicate"} /\ conn = "closed" /\ loop' # loop
           /\ main' = main)
          => loop' \in {"communicate", "send", "crashed"}]_vars
    /\ [][loop = "done"
          => /\ loop' = "done"
             /\ readLog' = readLog
             /\ sent' = sent
             /\ fs' = fs
             /\ spawned' = spawned]_vars

C17_Witness ==
    /\ loop = "done"
    /\ Len(readLog) = 1
    /\ Action(readLog[1]) = "command"
    /\ spawned = 1
    /\ procs = 0
    /\ sent = <<>>
    /\ inbox = <<>>

\* C18: at most one indicator task is alive at any time; an indicator task
\* is created only together with a successfully spawned subprocess, and only
\* when the indicator of the previous command has finished; a spawn failure
\* creates none.
C18_OneIndicator ==
    /\ [](alive <= 1 /\ alive <= spawned)
    /\ [][alive' > alive
          => /\ alive = 0
             /\ indicator \notin {"running", "cancelling"}
             /\ spawned' = spawned + 1
             /\ procs' = procs + 1]_vars
    /\ [][(loop = "spawn" /\ loop' = "crashed")
          => (alive' = alive /\ indicator' = indicator /\ spawned' = spawned)]_vars

C18_Witness ==
    /\ spawned = 2
    /\ loop = "communicate"
    /\ indicator = "running"
    /\ alive = 1
    /\ Len(sent) = 1

\* C19: handling a read request or an unknown-action request changes no file
\* and spawns no subprocess; handling a write request spawns no subprocess
\* and changes no file other than the one at the request's path.
C19_OwnSideEffectOnly ==
    /\ [][(CanRecv /\ Decodable(Head(inbox)) /\ readLog' # readLog
           /\ Action(Head(inbox)) # "command")
          => /\ spawned' = spawned
             /\ procs' = procs
             /\ loop' = "send"
             /\ IF Action(Head(inbox)) = "write"
                THEN \A p \in Files \ {Head(inbox).data.path} : fs'[p] = fs[p]
                ELSE fs' = fs]_vars
    /\ [][(loop = "send" /\ Action(cur) # "command")
          => (fs' = fs /\ spawned' = spawned /\ procs' = procs)]_vars

C19_Witness ==
    /\ Len(sent) = 2
    /\ Action(readLog[1]) = "write"
    /\ readLog[1].data.path = CONFIG_FILE
    /\ fs[CONFIG_FILE] = File(<<"s">>)
    /\ fs["a"] = File(<<BAD>>)
    /\ Action(readLog[2]) = "read"
    /\ readLog[2].data.path = "a"
    /\ spawned = 0

\* C20: a message that fails decoding has no local side effect: no file is
\* changed and no subprocess or indicator task is created before the fault
\* is raised, and nothing is sent.
C20_DecodeFaultNoEffect ==
    [][(CanRecv /\ ~Decodable(Head(inbox)) /\ readLog' # readLog)
       => /\ fs' = fs
          /\ spawned' = spawned
          /\ procs' = procs
          /\ alive' = alive
          /\ sent' = sent]_vars

C20_Witness ==
    /\ loop = "crashed"
    /\ fault = "KeyError"
    /\ Len(readLog) = 2
    /\ LastRead = Request("r1", [action |-> "write", path |-> "a"])
    /\ Action(readLog[1]) = "write"
    /\ fs["a"] = File(<<"s">>)
    /\ spawned = 0

====
